---- MODULE Spec2Model ----
(***************************************************************************)
(* OSToken (SoftHSMv2 object store): the token index, its reconciliation   *)
(* against the token directory, the PIN/flag accessors and createToken.    *)
(* Modelled from src/trunk/src/lib/object_store/OSToken.cpp.               *)
(***************************************************************************)
EXTENDS Integers, Sequences, FiniteSets, TLC

\* ------------------------------------------------------------------ bounds
\* Total number of ObjectFile handles the indexes may construct.
MaxHandles == 3
\* Number of times the change signal may be triggered.
MaxTriggers == 1

\* Number of times the change signal may be triggered while the threads of
\* one process call getObjects().
MaxThreadTriggers == 2

\* Two processes, each holding one OSToken over the same token directory.
Procs == {"A", "B"}
\* Threads of one process sharing its OSToken.
Threads == {"t1", "t2"}

\* Object files external actors create and delete in the token directory.
ObjNames == {"x.object", "y.object"}
\* Directory entries used to exercise the suffix filter.
FilterNames == {".object", "x.object", "object", "x.objec"}
\* The metadata file of a token.
TokenObjectName == "tokenObject"

\* Attributes of the metadata container.
AttributeIds == {"CKA_OS_TOKENLABEL", "CKA_OS_TOKENSERIAL",
                 "CKA_OS_TOKENFLAGS", "CKA_OS_SOPIN", "CKA_OS_USERPIN"}

\* The client whose getObjects() calls are recorded in the history
\* variables (the instances are symmetric).
Observed == "A"

VARIABLES
    \* the token directory and the metadata container (shared, on disk)
    dirFiles,       \* names of the entries of the token directory
    dirOk,          \* Directory::refresh()/isValid() succeeds
    metaOk,         \* tokenObject->isValid()
    sigCount,       \* the process-shared change signal (a trigger counter)
    \* one OSToken instance per process
    life,           \* "none" (not constructed), "live", "destroyed"
    valid,          \* OSToken::valid
    seen,           \* the signal value this instance's IPCSignal last saw
    objects,        \* OSToken::objects (handle ids)
    allObjects,     \* OSToken::allObjects (handle ids)
    currentFiles,   \* OSToken::currentFiles
    \* the ObjectFile instances constructed by index()
    heap,           \* handle id -> [file, owner]
    destroyed,      \* handle ids that were deleted
    \* history of the calls made (observations, not program state)
    lastGet,        \* the last getObjects() call of the observed client
    returned,       \* every handle a getObjects() returned to that client
    trigSince,      \* signal triggered since that client's OSToken was
                    \* constructed and since its last getObjects()
    synced,         \* per process: index() succeeded (with threads: listed
                    \* the directory) after the last trigger and the last
                    \* change of the directory
    \* token creation and the metadata attributes
    baseOk,         \* the base directory is valid
    tokDir,         \* the token directory exists under the base directory
    attrs,          \* attributes of the metadata container: <<>> or <<v>>
    creation,       \* how far the last createToken() call got
    lastCall,       \* the last call made on the token and what it returned
    lastPins,       \* the PIN values most recently written with success
    \* the threads of the observed process inside getObjects()
    pc,             \* where each thread is: "idle", "diffed", "locked", "copy"
    tNew,           \* per thread: newSet of its index() call
    tAdded,         \* per thread: addedFiles of its index() call
    tRemoved,       \* per thread: removedFiles of its index() call
    overlapped      \* the last index() call to list the directory did so
                    \* while another thread was between listing and return

idxVars == <<life, valid, seen, objects, allObjects, currentFiles>>
envVars == <<dirFiles, dirOk, metaOk, sigCount>>
heapVars == <<heap, destroyed>>
histVars == <<lastGet, returned, trigSince, synced>>
tokVars == <<baseOk, tokDir, attrs, creation, lastCall, lastPins>>
thrVars == <<pc, tNew, tAdded, tRemoved, overlapped>>
vars == <<envVars, idxVars, heapVars, histVars, tokVars, thrVars>>

\* ------------------------------------------------- external collaborators
\* IPCSignal::wasTriggered(): the shared counter moved since this handle
\* last looked; polling records the value seen (consumes the trigger).
WasTriggered(count, seenValue) == count # seenValue

\* ------------------------------------------------------- OSToken::index
\* A variant that re-indexes a valid token on every call.
ReindexAlways(isFirstTime, v, trig) == isFirstTime \/ v

\* A variant that does not test valid.
ReindexOnTrigger(isFirstTime, v, trig) == isFirstTime \/ trig

\* line 254: the early return is NOT taken
ReindexRequired(isFirstTime, v, trig) == isFirstTime \/ (v /\ trig)

\* A variant that polls the signal before it tests valid.
PollsWhenInvalid(isFirstTime, v) == ~isFirstTime

\* line 254: sync->wasTriggered() is evaluated only when !isFirstTime && valid
PollsSignal(isFirstTime, v) == (~isFirstTime) /\ v

\* line 260: tokenDir->refresh() && tokenObject->isValid()
IntegrityOk(dOk, mOk) == dOk /\ mOk

\* A variant that assigns the outcome of the integrity check to valid
\* whenever the signal was triggered.
IndexValidRecheck(isFirstTime, v, trig, ok) ==
    IF (~isFirstTime) /\ ~trig THEN v ELSE ok

\* A variant that leaves valid alone when the integrity check fails.
IndexValidKeep(isFirstTime, v, trig, ok) == v

\* lines 254-265: the value of valid when index() returns
IndexValid(isFirstTime, v, trig, ok) ==
    IF ~ReindexRequired(isFirstTime, v, trig) THEN v
    ELSE IF ~ok THEN FALSE
    ELSE v

\* line 275: (size > 7) && !substr(size - 7).compare(".object")
IsObjectFile(name) ==
    /\ Len(name) > 7
    /\ SubSeq(name, Len(name) - 7 + 1, Len(name)) = ".object"

\* lines 271-279
NewSet(tokenFiles) == {f \in tokenFiles : IsObjectFile(f)}

\* lines 285-308
AddedFiles(isFirstTime, newSet, cur) ==
    IF ~isFirstTime THEN {f \in newSet : f \notin cur} ELSE newSet

RemovedFiles(isFirstTime, newSet, cur) ==
    IF ~isFirstTime THEN {f \in cur : f \notin newSet} ELSE {}

\* An enumeration of a finite set (the iteration of a std::set).
RECURSIVE SeqOf(_)
SeqOf(S) ==
    IF S = {} THEN <<>>
    ELSE LET x == CHOOSE y \in S : TRUE IN <<x>> \o SeqOf(S \ {x})

\* lines 314-318: one new ObjectFile per added file, linked to this token
NewObjectFiles(added, p) ==
    LET names == SeqOf(added)
    IN [k \in 1..Len(names) |-> [file |-> names[k], owner |-> p]]

\* A variant that keeps only the new objects in allObjects.
AllObjectsReplaced(all, newHandles) == newHandles

\* A variant that forgets to record the new objects in allObjects.
AllObjectsNoInsert(all, newHandles) == all

\* line 321: allObjects.insert(newObject)
AllObjectsInsert(all, newHandles) == all \cup newHandles

\* lines 320, 325-337: insert the new objects, keep those not removed
ObjectsAfter(objs, newHandles, removed, hp) ==
    {h \in objs \cup newHandles : hp[h].file \notin removed}

\* lines 336-339: index() returns without assigning currentFiles
CurrentFilesAfter(cur, newSet) == cur

\* The whole of index(isFirstTime) on instance p, entered with valid = v0
\* and the signal handle at seen0, over a directory that lists tokenFiles;
\* the values of the members on return.
Index(p, isFirstTime, v0, seen0, tokenFiles, dOk, mOk) ==
    LET trig    == WasTriggered(sigCount, seen0)
        ran     == ReindexRequired(isFirstTime, v0, trig)
        ok      == IntegrityOk(dOk, mOk)
        newSet  == NewSet(tokenFiles)
        added   == AddedFiles(isFirstTime, newSet, currentFiles[p])
        removed == RemovedFiles(isFirstTime, newSet, currentFiles[p])
        heap2   == heap \o NewObjectFiles(added, p)
        newH    == (Len(heap) + 1)..Len(heap2)
        base    == [valid  |-> IndexValid(isFirstTime, v0, trig, ok),
                    seen   |-> IF PollsSignal(isFirstTime, v0)
                               THEN sigCount ELSE seen0,
                    ran    |-> ran,
                    pass   |-> ran /\ ok,
                    result |-> ran => ok]
    IN  IF ran /\ ok
        THEN base @@ [heap    |-> heap2,
                      objects |-> ObjectsAfter(objects[p], newH, removed, heap2),
                      all     |-> AllObjectsInsert(allObjects[p], newH),
                      cur     |-> CurrentFilesAfter(currentFiles[p], newSet)]
        ELSE base @@ [heap    |-> heap,
                      objects |-> objects[p],
                      all     |-> allObjects[p],
                      cur     |-> currentFiles[p]]

\* Names of the files backing a set of handles.
Names(hs) == {heap[h].file : h \in hs}

\* ------------------------------------------------------------ operations
NoGet == [calls |-> 0, ran |-> FALSE, ok |-> TRUE, result |-> {},
          same |-> TRUE, trigBefore |-> FALSE]

\* No OSToken exists yet, the signal was never triggered.
NothingConstructed ==
    /\ dirOk = TRUE
    /\ metaOk = TRUE
    /\ sigCount = 0
    /\ life = [p \in Procs |-> "none"]
    /\ valid = [p \in Procs |-> FALSE]
    /\ seen = [p \in Procs |-> 0]
    /\ objects = [p \in Procs |-> {}]
    /\ allObjects = [p \in Procs |-> {}]
    /\ currentFiles = [p \in Procs |-> {}]
    /\ heap = <<>>
    /\ destroyed = {}
    /\ lastGet = NoGet
    /\ returned = {}
    /\ trigSince = FALSE
    /\ synced = [p \in Procs |-> FALSE]
    /\ pc = [t \in Threads |-> "idle"]
    /\ tNew = [t \in Threads |-> {}]
    /\ tAdded = [t \in Threads |-> {}]
    /\ tRemoved = [t \in Threads |-> {}]
    /\ overlapped = FALSE

NoAttributes == [a \in AttributeIds |-> <<>>]
NoCall == [op |-> "none", wrote |-> FALSE, ret |-> FALSE, val |-> <<>>]
NoCreation == [stage |-> "none", rmFailed |-> FALSE]
NoPins == [so |-> <<>>, user |-> <<>>]

\* The token directory was created earlier; no accessor is called.
ExistingToken ==
    /\ baseOk = TRUE
    /\ tokDir = TRUE
    /\ attrs = NoAttributes
    /\ creation = NoCreation
    /\ lastCall = NoCall
    /\ lastPins = NoPins

Init ==
    /\ dirFiles \in {{TokenObjectName} \cup S : S \in SUBSET ObjNames}
    /\ NothingConstructed
    /\ ExistingToken

\* The assignments index() makes to the members of instance p.
ApplyIndex(p, r) ==
    /\ Len(r.heap) <= MaxHandles
    /\ valid' = [valid EXCEPT ![p] = r.valid]
    /\ seen' = [seen EXCEPT ![p] = r.seen]
    /\ objects' = [objects EXCEPT ![p] = r.objects]
    /\ allObjects' = [allObjects EXCEPT ![p] = r.all]
    /\ currentFiles' = [currentFiles EXCEPT ![p] = r.cur]
    /\ heap' = r.heap
    /\ synced' = IF r.pass THEN [synced EXCEPT ![p] = TRUE] ELSE synced

\* A variant that does not test the mutex.
ConstructValidNoMutex(gotSync, gotMutex, dirValid, objValid) ==
    gotSync /\ dirValid /\ objValid

\* line 61: (sync != NULL) && (tokenMutex != NULL) && tokenDir->isValid()
\* && tokenObject->isValid()
ConstructValid(gotSync, gotMutex, dirValid, objValid) ==
    gotSync /\ gotMutex /\ dirValid /\ objValid

\* lines 56-63: the members of a new OSToken over a directory. dirValid is
\* tokenDir->isValid(), the outcome of opening the directory at line 56;
\* dOk is the outcome of tokenDir->refresh() in index(true).
Construct(p, gotSync, gotMutex, dirValid, tokenFiles, dOk, mOk) ==
    /\ LET v0 == ConstructValid(gotSync, gotMutex, dirValid, mOk)
       IN ApplyIndex(p, Index(p, TRUE, v0, sigCount, tokenFiles, dOk, mOk))
    /\ life' = [life EXCEPT ![p] = "live"]

\* OSToken::OSToken(tokenPath), lines 54-64
Constructor(p, gotSync, gotMutex, dirValid) ==
    /\ life[p] = "none"
    /\ Construct(p, gotSync, gotMutex, dirValid, dirFiles, dirOk, metaOk)
    /\ trigSince' = IF p = Observed THEN FALSE ELSE trigSince
    /\ UNCHANGED <<envVars, destroyed, lastGet, returned, tokVars, thrVars>>

\* OSToken::getObjects(), lines 233-242
GetObjects(p) ==
    /\ life[p] = "live"
    /\ LET r == Index(p, FALSE, valid[p], seen[p], dirFiles, dirOk, metaOk)
       IN /\ ApplyIndex(p, r)
          /\ IF p = Observed
             THEN /\ lastGet' =
                        [calls      |-> IF lastGet.calls = 0 THEN 1 ELSE 2,
                         ran        |-> r.ran,
                         ok         |-> r.result,
                         result     |-> r.objects,
                         same       |-> r.objects = lastGet.result,
                         trigBefore |-> trigSince]
                  /\ returned' = returned \cup r.objects
                  /\ trigSince' = FALSE
             ELSE UNCHANGED <<lastGet, returned, trigSince>>
    /\ UNCHANGED <<envVars, life, destroyed, tokVars, thrVars>>

\* OSToken::~OSToken(), lines 119-134: every object of allObjects is
\* deleted; the members cease to exist (they take their initial values).
Destructor(p) ==
    /\ life[p] = "live"
    /\ life' = [life EXCEPT ![p] = "destroyed"]
    /\ destroyed' = destroyed \cup allObjects[p]
    /\ allObjects' = [allObjects EXCEPT ![p] = {}]
    /\ objects' = [objects EXCEPT ![p] = {}]
    /\ currentFiles' = [currentFiles EXCEPT ![p] = {}]
    /\ valid' = [valid EXCEPT ![p] = FALSE]
    /\ seen' = [seen EXCEPT ![p] = 0]
    /\ synced' = [synced EXCEPT ![p] = FALSE]
    /\ UNCHANGED <<envVars, heap, lastGet, returned, trigSince, tokVars, thrVars>>

\* ------------------------------------------------------- the environment
\* Another actor creates an entry in the token directory.
CreateFile(f) ==
    /\ f \notin dirFiles
    /\ dirFiles' = dirFiles \cup {f}
    /\ synced' = [p \in Procs |-> FALSE]
    /\ UNCHANGED <<dirOk, metaOk, sigCount, idxVars, heapVars,
                   lastGet, returned, trigSince, tokVars, thrVars>>

\* Another actor deletes an entry of the token directory.
DeleteFile(f) ==
    /\ f \in dirFiles
    /\ dirFiles' = dirFiles \ {f}
    /\ synced' = [p \in Procs |-> FALSE]
    /\ UNCHANGED <<dirOk, metaOk, sigCount, idxVars, heapVars,
                   lastGet, returned, trigSince, tokVars, thrVars>>

\* Any process triggers the change signal, at most n times.
TriggerUpTo(n) ==
    /\ sigCount < n
    /\ sigCount' = sigCount + 1
    /\ synced' = [p \in Procs |-> FALSE]
    /\ trigSince' = TRUE
    /\ UNCHANGED <<dirFiles, dirOk, metaOk, idxVars, heapVars,
                   lastGet, returned, tokVars, thrVars>>

Trigger == TriggerUpTo(MaxTriggers)

\* The token directory becomes unreadable, or readable again.
SetDirOk(b) ==
    /\ dirOk # b
    /\ dirOk' = b
    /\ UNCHANGED <<dirFiles, metaOk, sigCount, idxVars, heapVars, histVars,
                   tokVars, thrVars>>

\* The metadata container becomes invalid, or valid again.
SetMetaOk(b) ==
    /\ metaOk # b
    /\ metaOk' = b
    /\ UNCHANGED <<dirFiles, dirOk, sigCount, idxVars, heapVars, histVars,
                   tokVars, thrVars>>

Next ==
    \/ \E p \in Procs, gotSync \in BOOLEAN, gotMutex \in BOOLEAN,
          dirValid \in BOOLEAN :
          Constructor(p, gotSync, gotMutex, dirValid)
    \/ \E p \in Procs : GetObjects(p)
    \/ \E p \in Procs : Destructor(p)
    \/ \E f \in ObjNames : CreateFile(f)
    \/ \E f \in ObjNames : DeleteFile(f)
    \/ Trigger
    \/ \E b \in BOOLEAN : SetDirOk(b)
    \/ \E b \in BOOLEAN : SetMetaOk(b)

Spec == Init /\ [][Next]_vars

\* One process; the directory holds any of the entries of FilterNames.
InitFilter ==
    /\ dirFiles \in {{TokenObjectName} \cup S : S \in SUBSET FilterNames}
    /\ NothingConstructed
    /\ ExistingToken

NextFilter ==
    \/ \E gotSync \in BOOLEAN, gotMutex \in BOOLEAN, dirValid \in BOOLEAN :
          Constructor(Observed, gotSync, gotMutex, dirValid)
    \/ GetObjects(Observed)
    \/ \E f \in FilterNames : CreateFile(f)
    \/ \E f \in FilterNames : DeleteFile(f)
    \/ Trigger

SpecFilter == InitFilter /\ [][NextFilter]_vars

\* ------------------------------------------------ metadata attributes
\* Token flag bits (cryptoki.h), as names; a flags value is a set of bits.
InitialFlags == {"CKF_RNG", "CKF_LOGIN_REQUIRED", "CKF_RESTORE_KEY_NOT_NEEDED",
                 "CKF_TOKEN_INITIALIZED", "CKF_SO_PIN_LOCKED",
                 "CKF_SO_PIN_TO_BE_CHANGED"}
UserPinInitialized == "CKF_USER_PIN_INITIALIZED"

\* Values the callers pass.
PinValues == {"1234", "5678"}
FlagValues == {{}, {UserPinInitialized}, InitialFlags,
               InitialFlags \cup {UserPinInitialized}}
TokenLabel == "L"
TokenSerial == "S"

\* ObjectFile::setAttribute: the container after a write that succeeded
\* (the attribute holds the value) or failed (nothing changed).
SetAttribute(at, id, value, written) ==
    IF written THEN [at EXCEPT ![id] = <<value>>] ELSE at

\* ObjectFile::attributeExists
AttributeExists(at, id) == at[id] # <<>>

Failure == [ret |-> FALSE, val |-> <<>>]

\* A variant that reads the user PIN attribute.
GetSOPINWrongAttribute(at, mOk) ==
    IF ~mOk THEN Failure
    ELSE IF AttributeExists(at, "CKA_OS_USERPIN")
         THEN [ret |-> TRUE, val |-> at["CKA_OS_USERPIN"]]
         ELSE Failure

\* OSToken::getSOPIN, lines 145-164: the result and the blob handed back
GetSOPINOut(at, mOk) ==
    IF ~mOk THEN Failure
    ELSE IF AttributeExists(at, "CKA_OS_SOPIN")
         THEN [ret |-> TRUE, val |-> at["CKA_OS_SOPIN"]]
         ELSE Failure

\* OSToken::getUserPIN, lines 175-194
GetUserPINOut(at, mOk) ==
    IF ~mOk THEN Failure
    ELSE IF AttributeExists(at, "CKA_OS_USERPIN")
         THEN [ret |-> TRUE, val |-> at["CKA_OS_USERPIN"]]
         ELSE Failure

\* OSToken::getTokenFlags, lines 197-222
GetTokenFlagsOut(at, mOk) ==
    IF ~mOk THEN Failure
    ELSE IF AttributeExists(at, "CKA_OS_TOKENFLAGS")
         THEN [ret |-> TRUE,
               val |-> <<at["CKA_OS_TOKENFLAGS"][1] \cup
                         (IF AttributeExists(at, "CKA_OS_USERPIN")
                          THEN {UserPinInitialized} ELSE {})>>]
         ELSE Failure

\* ------------------------------------------------- OSToken::createToken
\* Directory::remove of a file of the token directory: fs afterwards.
RemoveFile(fs, name, allowed) ==
    IF allowed /\ name \in fs.files
    THEN [fs EXCEPT !.files = @ \ {name}]
    ELSE [fs EXCEPT !.rmFailed = TRUE]

\* Directory::remove of the token directory (only an empty one goes).
RemoveDir(fs, allowed) ==
    IF allowed /\ fs.dir /\ fs.files = {}
    THEN [fs EXCEPT !.dir = FALSE]
    ELSE [fs EXCEPT !.rmFailed = TRUE]

\* line 87: rollback when the token object could not be created
RollbackContainer(fs, rmDirOk) == RemoveDir(fs, rmDirOk)

\* A variant that removes the token object and leaves the directory.
RollbackFileOnly(fs, rmFileOk, rmDirOk) ==
    RemoveFile(fs, TokenObjectName, rmFileOk)

\* lines 109-110: rollback when an attribute could not be written
RollbackAttributes(fs, rmFileOk, rmDirOk) ==
    RemoveDir(RemoveFile(fs, TokenObjectName, rmFileOk), rmDirOk)

\* A variant whose initial flags leave the SO PIN unlocked.
InitialAttributesUnlocked(w) ==
    LET a1 == SetAttribute(NoAttributes, "CKA_OS_TOKENLABEL", TokenLabel,
                           w.label)
        a2 == SetAttribute(a1, "CKA_OS_TOKENSERIAL", TokenSerial,
                           w.label /\ w.serial)
    IN SetAttribute(a2, "CKA_OS_TOKENFLAGS",
                    InitialFlags \ {"CKF_SO_PIN_LOCKED"},
                    w.label /\ w.serial /\ w.flags)

\* lines 105-107: the three writes, each made only if the one before
\* succeeded; w names the outcome of each write
InitialAttributes(w) ==
    LET a1 == SetAttribute(NoAttributes, "CKA_OS_TOKENLABEL", TokenLabel,
                           w.label)
        a2 == SetAttribute(a1, "CKA_OS_TOKENSERIAL", TokenSerial,
                           w.label /\ w.serial)
    IN SetAttribute(a2, "CKA_OS_TOKENFLAGS", InitialFlags,
                    w.label /\ w.serial /\ w.flags)

AttributesWritten(w) == w.label /\ w.serial /\ w.flags

\* createToken up to line 113: how far it got, the base directory and the
\* metadata file afterwards. in names what the file system lets happen.
CreateTokenOut(in) ==
    LET fs0 == [dir |-> tokDir, files |-> dirFiles, rmFailed |-> FALSE]
        fs1 == [fs0 EXCEPT !.dir = TRUE, !.files = {}]
        fs2 == [fs1 EXCEPT !.files = {TokenObjectName}]
    IN  IF ~baseOk
        THEN [stage |-> "base", ok |-> FALSE, fs |-> fs0, at |-> attrs]
        ELSE IF ~(in.mkdir /\ ~tokDir)
        THEN [stage |-> "mkdir", ok |-> FALSE, fs |-> fs0, at |-> attrs]
        ELSE IF ~in.object
        THEN [stage |-> "container", ok |-> FALSE,
              fs |-> RollbackContainer(fs1, in.rmDir), at |-> NoAttributes]
        ELSE IF ~AttributesWritten(in.w)
        THEN LET fs3 == RollbackAttributes(fs2, in.rmFile, in.rmDir)
             IN [stage |-> "attributes", ok |-> FALSE, fs |-> fs3,
                 at |-> IF TokenObjectName \in fs3.files
                        THEN InitialAttributes(in.w) ELSE NoAttributes]
        ELSE [stage |-> "done", ok |-> TRUE, fs |-> fs2,
              at |-> InitialAttributes(in.w)]

Outcomes == [mkdir : BOOLEAN, object : BOOLEAN,
             w : [label : BOOLEAN, serial : BOOLEAN, flags : BOOLEAN],
             rmFile : BOOLEAN, rmDir : BOOLEAN]

\* OSToken::createToken, lines 67-116; on success the OSToken of process p
\* is constructed over the new directory (line 115).
CreateToken(p, in, gotSync, gotMutex, reopened) ==
    /\ life[p] = "none"
    /\ LET r == CreateTokenOut(in)
       IN /\ tokDir' = r.fs.dir
          /\ dirFiles' = r.fs.files
          /\ attrs' = r.at
          /\ creation' = [stage |-> r.stage, rmFailed |-> r.fs.rmFailed]
          /\ lastCall' = [op |-> "createToken", wrote |-> r.ok,
                          ret |-> r.ok, val |-> <<>>]
          /\ IF r.ok
             THEN /\ metaOk' = reopened
                  /\ Construct(p, gotSync, gotMutex, dirOk, r.fs.files,
                               dirOk, reopened)
             ELSE UNCHANGED <<metaOk, idxVars, heap, synced>>
    /\ UNCHANGED <<dirOk, sigCount, destroyed, lastGet, returned, trigSince,
                   baseOk, lastPins, thrVars>>

\* What an accessor leaves alone.
AccessorFrame == UNCHANGED <<envVars, idxVars, heapVars, histVars,
                             baseOk, tokDir, creation, thrVars>>

\* OSToken::setSOPIN, lines 137-142. The function has no return statement:
\* the value the caller reads is indeterminate (anyResult).
SetSOPIN(p, pin, written, anyResult) ==
    /\ life[p] = "live"
    /\ written => metaOk
    /\ attrs' = SetAttribute(attrs, "CKA_OS_SOPIN", pin, written)
    /\ lastCall' = [op |-> "setSOPIN", wrote |-> written,
                    ret |-> anyResult, val |-> <<pin>>]
    /\ lastPins' = IF written THEN [lastPins EXCEPT !.so = <<pin>>]
                   ELSE lastPins
    /\ AccessorFrame

\* OSToken::getSOPIN, lines 145-164
GetSOPIN(p) ==
    /\ life[p] = "live"
    /\ LET r == GetSOPINOut(attrs, metaOk)
       IN lastCall' = [op |-> "getSOPIN", wrote |-> FALSE,
                       ret |-> r.ret, val |-> r.val]
    /\ UNCHANGED <<attrs, lastPins>>
    /\ AccessorFrame

\* OSToken::setUserPIN, lines 167-172
SetUserPIN(p, pin, written) ==
    /\ life[p] = "live"
    /\ written => metaOk
    /\ attrs' = SetAttribute(attrs, "CKA_OS_USERPIN", pin, written)
    /\ lastCall' = [op |-> "setUserPIN", wrote |-> written,
                    ret |-> written, val |-> <<pin>>]
    /\ lastPins' = IF written THEN [lastPins EXCEPT !.user = <<pin>>]
                   ELSE lastPins
    /\ AccessorFrame

\* OSToken::getUserPIN, lines 175-194
GetUserPIN(p) ==
    /\ life[p] = "live"
    /\ LET r == GetUserPINOut(attrs, metaOk)
       IN lastCall' = [op |-> "getUserPIN", wrote |-> FALSE,
                       ret |-> r.ret, val |-> r.val]
    /\ UNCHANGED <<attrs, lastPins>>
    /\ AccessorFrame

\* OSToken::getTokenFlags, lines 197-222
GetTokenFlags(p) ==
    /\ life[p] = "live"
    /\ LET r == GetTokenFlagsOut(attrs, metaOk)
       IN lastCall' = [op |-> "getTokenFlags", wrote |-> FALSE,
                       ret |-> r.ret, val |-> r.val]
    /\ UNCHANGED <<attrs, lastPins>>
    /\ AccessorFrame

\* OSToken::setTokenFlags, lines 225-230
SetTokenFlags(p, flags, written) ==
    /\ life[p] = "live"
    /\ written => metaOk
    /\ attrs' = SetAttribute(attrs, "CKA_OS_TOKENFLAGS", flags, written)
    /\ lastCall' = [op |-> "setTokenFlags", wrote |-> written,
                    ret |-> written, val |-> <<flags>>]
    /\ UNCHANGED lastPins
    /\ AccessorFrame

\* A base directory (valid or not) without the token directory.
InitToken ==
    /\ NothingConstructed
    /\ dirFiles = {}
    /\ baseOk \in BOOLEAN
    /\ tokDir = FALSE
    /\ attrs = NoAttributes
    /\ creation = NoCreation
    /\ lastCall = NoCall
    /\ lastPins = NoPins

NextToken ==
    \/ \E in \in Outcomes, gotSync \in BOOLEAN, gotMutex \in BOOLEAN,
          reopened \in BOOLEAN :
          CreateToken(Observed, in, gotSync, gotMutex, reopened)
    \/ \E pin \in PinValues, written \in BOOLEAN, anyResult \in BOOLEAN :
          SetSOPIN(Observed, pin, written, anyResult)
    \/ GetSOPIN(Observed)
    \/ \E pin \in PinValues, written \in BOOLEAN :
          SetUserPIN(Observed, pin, written)
    \/ GetUserPIN(Observed)
    \/ GetTokenFlags(Observed)
    \/ \E flags \in FlagValues, written \in BOOLEAN :
          SetTokenFlags(Observed, flags, written)

SpecToken == InitToken /\ [][NextToken]_vars

\* ------------------------------------- threads sharing one OSToken
\* MutexLocker lock(tokenMutex), lines 239 and 311: the mutex is free when
\* no thread is inside the locked part of index().
MutexFree == \A u \in Threads : pc[u] # "locked"

\* A variant of getObjects() that copies objects without the mutex.
GetObjectsNoLock(free) == TRUE

\* line 239: getObjects() copies objects once it holds the mutex
GetObjectsLocks(free) == free

\* What the steps of a thread leave alone.
ThreadFrame == UNCHANGED <<dirFiles, dirOk, metaOk, sigCount, life,
                           destroyed, returned, trigSince, tokVars>>

\* index(), lines 254-308, called by getObjects() (line 235) in thread t:
\* the guard, the integrity check, the listing and the diff, all made
\* without the mutex.
IndexUnlocked(t) ==
    LET p      == Observed
        polls  == PollsSignal(FALSE, valid[p])
        trig   == polls /\ WasTriggered(sigCount, seen[p])
        ran    == ReindexRequired(FALSE, valid[p], trig)
        ok     == IntegrityOk(dirOk, metaOk)
        newSet == NewSet(dirFiles)
    IN  /\ life[p] = "live"
        /\ pc[t] = "idle"
        /\ seen' = [seen EXCEPT ![p] = IF polls THEN sigCount ELSE @]
        /\ valid' = [valid EXCEPT ![p] = IndexValid(FALSE, @, trig, ok)]
        /\ IF ran /\ ok
           THEN /\ pc' = [pc EXCEPT ![t] = "diffed"]
                /\ tNew' = [tNew EXCEPT ![t] = newSet]
                /\ tAdded' = [tAdded EXCEPT ![t] =
                                 AddedFiles(FALSE, newSet, currentFiles[p])]
                /\ tRemoved' = [tRemoved EXCEPT ![t] =
                                 RemovedFiles(FALSE, newSet, currentFiles[p])]
                /\ synced' = [synced EXCEPT ![p] = TRUE]
                /\ overlapped' =
                       \E u \in Threads \ {t} : pc[u] \in {"diffed", "locked"}
           ELSE /\ pc' = [pc EXCEPT ![t] = "copy"]
                /\ UNCHANGED <<tNew, tAdded, tRemoved, synced, overlapped>>
        /\ UNCHANGED <<objects, allObjects, currentFiles, heap, lastGet>>
        /\ ThreadFrame

\* index(), lines 311-322: thread t takes the mutex and inserts an
\* ObjectFile for every added file.
IndexLock(t) ==
    LET p     == Observed
        heap2 == heap \o NewObjectFiles(tAdded[t], p)
        newH  == (Len(heap) + 1)..Len(heap2)
    IN  /\ pc[t] = "diffed"
        /\ MutexFree
        /\ Len(heap2) <= MaxHandles
        /\ pc' = [pc EXCEPT ![t] = "locked"]
        /\ heap' = heap2
        /\ objects' = [objects EXCEPT ![p] = @ \cup newH]
        /\ allObjects' = [allObjects EXCEPT ![p] = AllObjectsInsert(@, newH)]
        /\ UNCHANGED <<valid, seen, currentFiles, lastGet, synced,
                       tNew, tAdded, tRemoved, overlapped>>
        /\ ThreadFrame

\* index(), lines 325-339: thread t, holding the mutex, keeps the objects
\* whose file was not removed and returns, releasing the mutex.
IndexRebuild(t) ==
    LET p == Observed
    IN  /\ pc[t] = "locked"
        /\ pc' = [pc EXCEPT ![t] = "copy"]
        /\ objects' = [objects EXCEPT ![p] =
                          ObjectsAfter(@, {}, tRemoved[t], heap)]
        /\ currentFiles' = [currentFiles EXCEPT ![p] =
                               CurrentFilesAfter(@, tNew[t])]
        /\ tNew' = [tNew EXCEPT ![t] = {}]
        /\ tAdded' = [tAdded EXCEPT ![t] = {}]
        /\ tRemoved' = [tRemoved EXCEPT ![t] = {}]
        /\ UNCHANGED <<valid, seen, allObjects, heap, lastGet, synced,
                       overlapped>>
        /\ ThreadFrame

\* getObjects(), lines 239-241: thread t takes the mutex and returns a copy
\* of objects.
CopyObjects(t) ==
    /\ pc[t] = "copy"
    /\ GetObjectsLocks(MutexFree)
    /\ pc' = [pc EXCEPT ![t] = "idle"]
    /\ lastGet' = [NoGet EXCEPT !.calls = 1, !.result = objects[Observed]]
    /\ UNCHANGED <<idxVars, heap, synced, tNew, tAdded, tRemoved, overlapped>>
    /\ ThreadFrame

\* One process whose threads call getObjects() on its OSToken while other
\* actors change the directory and trigger the signal.
NextThreads ==
    \/ \E gotSync \in BOOLEAN, gotMutex \in BOOLEAN, dirValid \in BOOLEAN :
          Constructor(Observed, gotSync, gotMutex, dirValid)
    \/ \E t \in Threads : IndexUnlocked(t)
    \/ \E t \in Threads : IndexLock(t)
    \/ \E t \in Threads : IndexRebuild(t)
    \/ \E t \in Threads : CopyObjects(t)
    \/ \E f \in ObjNames : CreateFile(f)
    \/ \E f \in ObjNames : DeleteFile(f)
    \/ TriggerUpTo(MaxThreadTriggers)
    \/ \E b \in BOOLEAN : SetDirOk(b)

SpecThreads == Init /\ [][NextThreads]_vars

\* ================================================================ claims
\* name ends with the literal suffix
HasSuffix(name, suffix) ==
    /\ Len(name) >= Len(suffix)
    /\ SubSeq(name, Len(name) - Len(suffix) + 1, Len(name)) = suffix

\* The observed client's last getObjects() performed a successful
\* reconciliation after a trigger, and neither the directory nor the signal
\* changed since.
ReconciledByGet ==
    /\ life[Observed] = "live"
    /\ valid[Observed]
    /\ synced[Observed]
    /\ lastGet.calls > 0
    /\ lastGet.ran
    /\ lastGet.trigBefore

\* C1 (convergence): after a trigger, the next getObjects() on a valid index
\* returns handles whose backing file names are exactly the .object files
\* present in the directory at that reconciliation.
C1_Convergence ==
    ReconciledByGet =>
        Names(lastGet.result) = {f \in dirFiles : HasSuffix(f, ".object")}

\* C2 (idempotence): a getObjects() call with no trigger since the previous
\* getObjects() call performs no reconciliation pass and returns the same set.
C2_Idempotence ==
    (lastGet.calls = 2 /\ ~lastGet.trigBefore) =>
        (~lastGet.ran /\ lastGet.same)

C2_Witness ==
    /\ life[Observed] = "live"
    /\ valid[Observed]
    /\ lastGet.calls = 2
    /\ ~lastGet.trigBefore
    /\ sigCount > 0
    /\ seen[Observed] = sigCount
    /\ lastGet.result # {}

\* C3 (handle durability): every handle getObjects() returned stays in
\* allObjects and is not destroyed while its index lives; handles are
\* destroyed only by the destructor of the index that owns them.
C3_HandleDurability ==
    /\ life[Observed] = "live" =>
          /\ returned \subseteq allObjects[Observed]
          /\ returned \cap destroyed = {}
    /\ \A h \in destroyed : life[heap[h].owner] = "destroyed"

\* a returned handle whose file is gone, after a later reconciliation
C3_Witness ==
    /\ ReconciledByGet
    /\ \E h \in returned :
          /\ heap[h].file \notin dirFiles
          /\ h \in allObjects[Observed]
          /\ h \notin destroyed

\* C4 (suffix filtering): after a successful reconciliation a directory entry
\* has a live handle if and only if its name ends with ".object"; so
\* ".object" and "x.object" have one, "object" and "x.objec" have none.
C4_SuffixFiltering ==
    (life[Observed] = "live" /\ synced[Observed]) =>
        \A f \in dirFiles :
            (f \in Names(objects[Observed])) <=> HasSuffix(f, ".object")

\* C5 (derived flag correctness): a successful getTokenFlags reports the
\* "user PIN initialized" bit if and only if getUserPIN would succeed,
\* whatever raw flags value was stored last.
C5_DerivedFlag ==
    (lastCall.op = "getTokenFlags" /\ lastCall.ret) =>
        ((UserPinInitialized \in lastCall.val[1])
            <=> GetUserPINOut(attrs, metaOk).ret)

\* createToken failed after it had created the token directory
CreateFailedAfterMkdir ==
    /\ lastCall.op = "createToken"
    /\ ~lastCall.ret
    /\ creation.stage \in {"container", "attributes"}

NothingLeftBehind == (~tokDir) /\ TokenObjectName \notin dirFiles

\* C6 as stated (rollback completeness): whenever createToken fails after
\* the token directory was created, neither the token directory nor the
\* tokenObject file under it is left.
C6_RollbackAlways == CreateFailedAfterMkdir => NothingLeftBehind

\* C6 as amended: whenever createToken fails after the token directory was
\* created and every removal of its rollback succeeded, neither the token
\* directory nor the tokenObject file under it is left.
C6_RollbackComplete ==
    (CreateFailedAfterMkdir /\ ~creation.rmFailed) => NothingLeftBehind

\* an attribute write failed and the rollback removed file and directory
C6_Witness ==
    /\ CreateFailedAfterMkdir
    /\ creation.stage = "attributes"
    /\ ~creation.rmFailed
    /\ NothingLeftBehind

\* C7 (sticky validity): once valid is false on a live instance it is false
\* in every later state of that instance.
C7_StickyValidity ==
    [][\A p \in Procs :
          (life[p] = "live" /\ ~valid[p]) => ~valid'[p]]_vars

\* an invalid instance polled by getObjects() after a trigger, with the
\* directory and the metadata container in order again
C7_Witness ==
    /\ life[Observed] = "live"
    /\ ~valid[Observed]
    /\ dirOk
    /\ metaOk
    /\ lastGet.calls > 0
    /\ lastGet.trigBefore

\* C8: setSOPIN and setUserPIN return true exactly when the underlying
\* attribute write succeeded.
C8_SetPinResult ==
    (lastCall.op \in {"setSOPIN", "setUserPIN"}) =>
        (lastCall.ret <=> lastCall.wrote)

\* C9 (PIN round trip): getSOPIN/getUserPIN succeed exactly when that PIN
\* was written with success since the token was created, and then return
\* the value written last; a write of the other PIN does not change that.
C9_PinRoundTrip ==
    /\ lastCall.op = "getSOPIN" =>
          /\ lastCall.ret <=> (lastPins.so # <<>>)
          /\ lastCall.ret => lastCall.val = lastPins.so
    /\ lastCall.op = "getUserPIN" =>
          /\ lastCall.ret <=> (lastPins.user # <<>>)
          /\ lastCall.ret => lastCall.val = lastPins.user

\* getSOPIN returns the SO PIN while a different user PIN is set
C9_Witness ==
    /\ lastCall.op = "getSOPIN"
    /\ lastCall.ret
    /\ lastCall.val = <<"1234">>
    /\ lastPins.user = <<"5678">>
    /\ attrs["CKA_OS_USERPIN"] = <<"5678">>

\* C10 (cross-process convergence): when both processes hold a valid index
\* and each has reconciled after the last trigger and the last change of the
\* directory, both hold live objects with the same backing file names.
C10_CrossProcessConvergence ==
    (\A p \in Procs : life[p] = "live" /\ valid[p] /\ synced[p]) =>
        \A p, q \in Procs : Names(objects[p]) = Names(objects[q])

\* C11: on a live index whose valid flag is false, getObjects() runs no
\* reconciliation, index() reports success and the call returns the set the
\* index held; no step changes that set while the index stays invalid.
C11_InvalidNoOp ==
    [][\A p \in Procs :
          (life[p] = "live" /\ ~valid[p]) =>
            /\ life'[p] = "live" => objects'[p] = objects[p]
            /\ GetObjects(p) =>
                 /\ allObjects'[p] = allObjects[p]
                 /\ heap' = heap
                 /\ p = Observed =>
                      /\ ~lastGet'.ran
                      /\ lastGet'.ok
                      /\ lastGet'.result = objects[p]]_vars

\* an invalid index returns a stale set after the directory changed and the
\* signal was triggered, with directory and metadata in order
C11_Witness ==
    /\ life[Observed] = "live"
    /\ ~valid[Observed]
    /\ dirOk
    /\ metaOk
    /\ lastGet.calls > 0
    /\ lastGet.trigBefore
    /\ \E h \in lastGet.result : heap[h].file \notin dirFiles

\* C12: after a successful reconciliation the live objects hold exactly one
\* handle per name of currentFiles and no handle of another name.
C12_OneHandlePerKnownFile ==
    \A p \in Procs :
        (life[p] = "live" /\ synced[p]) =>
            /\ Names(objects[p]) = currentFiles[p]
            /\ \A h1, h2 \in objects[p] :
                  heap[h1].file = heap[h2].file => h1 = h2

\* C13: a successful reconciliation replaces currentFiles with the set of
\* object-file names it listed (the next diff is made against it).
C13_KnownFilesReplaced ==
    \A p \in Procs :
        (life[p] = "live" /\ synced[p]) => currentFiles[p] = NewSet(dirFiles)

\* C14: between construction and destruction objects is a subset of
\* allObjects, and allObjects never loses an element.
C14_LiveSubsetOfAll ==
    [][\A p \in Procs :
          life'[p] = "live" =>
            /\ objects'[p] \subseteq allObjects'[p]
            /\ life[p] = "live" => allObjects[p] \subseteq allObjects'[p]]_vars

\* an index with live objects after a reconciliation by getObjects()
C14_Witness ==
    /\ life[Observed] = "live"
    /\ lastGet.ran
    /\ lastGet.ok
    /\ objects[Observed] # {}
    /\ objects[Observed] \subseteq allObjects[Observed]

\* C17: a reconciliation whose directory refresh fails or whose metadata
\* container is invalid sets valid to false, reports failure and leaves
\* objects, allObjects and currentFiles unchanged; getObjects() sets valid
\* to false in no other case.
C17_IntegrityFailure ==
    [][\A p \in Procs :
          LET fails == /\ valid[p]
                       /\ WasTriggered(sigCount, seen[p])
                       /\ ~(dirOk /\ metaOk)
          IN /\ (fails /\ GetObjects(p)) =>
                  /\ ~valid'[p]
                  /\ objects'[p] = objects[p]
                  /\ allObjects'[p] = allObjects[p]
                  /\ currentFiles'[p] = currentFiles[p]
                  /\ heap' = heap
                  /\ p = Observed => (lastGet'.ran /\ ~lastGet'.ok)
             /\ (valid[p] /\ ~valid'[p] /\ GetObjects(p)) => fails]_vars

\* a failed reconciliation left the objects of the index in place
C17_Witness ==
    /\ life[Observed] = "live"
    /\ ~valid[Observed]
    /\ lastGet.ran
    /\ ~lastGet.ok
    /\ objects[Observed] # {}

\* C18: getObjects() performs a reconciliation pass if and only if the index
\* is valid and the signal was triggered since the index last polled it; an
\* invalid index does not poll the signal.
C18_PassIffValidAndTriggered ==
    [][GetObjects(Observed) =>
          /\ lastGet'.ran <=> (valid[Observed] /\ trigSince)
          /\ ~valid[Observed] => seen'[Observed] = seen[Observed]]_vars

\* after a getObjects() on an invalid index the trigger is still pending
C18_Witness ==
    /\ life[Observed] = "live"
    /\ ~valid[Observed]
    /\ lastGet.calls > 0
    /\ lastGet.trigBefore
    /\ ~lastGet.ran
    /\ WasTriggered(sigCount, seen[Observed])

\* C19 as stated: after construction valid is true if and only if the
\* signal, the mutex, the directory and the metadata container were obtained.
C19_ValidIffResources ==
    [][\A p \in Procs :
        (life[p] = "none" /\ life'[p] = "live") =>
          \A gotSync \in BOOLEAN, gotMutex \in BOOLEAN, dirValid \in BOOLEAN :
          Constructor(p, gotSync, gotMutex, dirValid) =>
            (valid'[p] <=> (gotSync /\ gotMutex /\ dirValid /\ metaOk))]_vars

\* C19 as amended: after construction valid is true if and only if the four
\* resources were obtained and the directory refresh of the first-time
\* reconciliation succeeded; that reconciliation runs whatever the signal
\* and valid are, and when its integrity check passes the live objects are
\* those of the object files listed.
C19_ValidAfterConstruction ==
    [][\A p \in Procs :
        (life[p] = "none" /\ life'[p] = "live") =>
          \A gotSync \in BOOLEAN, gotMutex \in BOOLEAN, dirValid \in BOOLEAN :
          Constructor(p, gotSync, gotMutex, dirValid) =>
            /\ valid'[p] <=>
                 (gotSync /\ gotMutex /\ dirValid /\ metaOk /\ dirOk)
            /\ (dirOk /\ metaOk) =>
                 {heap'[h].file : h \in objects'[p]} = NewSet(dirFiles)
            /\ ~(dirOk /\ metaOk) => objects'[p] = {}]_vars

\* an index constructed invalid, after a trigger, holds the objects its
\* first-time reconciliation found
C19_Witness ==
    /\ life[Observed] = "live"
    /\ ~valid[Observed]
    /\ lastGet.calls = 0
    /\ sigCount > 0
    /\ objects[Observed] # {}

\* createToken succeeds exactly when the base directory is valid, the token
\* directory and the token object were created and the three attribute
\* writes succeeded, whatever the rollback removals do; it returns an
\* OSToken exactly when it succeeds.
CreateTokenReturnsOnlyOnSuccess ==
    (life[Observed] = "none" /\ lastCall'.op = "createToken") =>
        /\ \A in \in Outcomes :
              CreateTokenOut(in).ok <=>
                 /\ baseOk
                 /\ ~tokDir /\ in.mkdir
                 /\ in.object
                 /\ in.w.label /\ in.w.serial /\ in.w.flags
        /\ lastCall'.ret <=> creation'.stage = "done"
        /\ creation'.rmFailed => ~lastCall'.ret
        /\ life'[Observed] = "live" <=> lastCall'.ret

\* getTokenFlags is the first call on the OSToken createToken returned
FirstGetTokenFlags ==
    /\ lastCall.op = "createToken"
    /\ lastCall.ret
    /\ GetTokenFlags(Observed)

\* the call returned exactly the six initial bits
ReturnedInitialFlags ==
    /\ lastCall'.ret
    /\ lastCall'.val = <<InitialFlags>>
    /\ UserPinInitialized \notin lastCall'.val[1]

\* C20 as stated: createToken returns an OSToken only when every step
\* succeeded, and no OSToken otherwise, also when a rollback removal fails;
\* the first getTokenFlags on the returned OSToken returns exactly the six
\* initial bits, the user-PIN-initialized bit clear.
C20_CreateTokenFlags ==
    [][/\ CreateTokenReturnsOnlyOnSuccess
       /\ FirstGetTokenFlags => ReturnedInitialFlags]_vars

\* C20 as amended: as stated, but the first getTokenFlags returns the six
\* initial bits provided the token object the returned OSToken re-opened is
\* valid (it is whenever isValid() is true); when it is not, getTokenFlags
\* fails.
C20_CreateTokenValidFlags ==
    [][/\ CreateTokenReturnsOnlyOnSuccess
       /\ FirstGetTokenFlags =>
            /\ valid[Observed] => metaOk
            /\ metaOk => ReturnedInitialFlags
            /\ ~metaOk => ~lastCall'.ret]_vars

\* a valid OSToken returned by createToken reported the six initial bits,
\* no PIN having been set
C20_Witness ==
    /\ creation.stage = "done"
    /\ life[Observed] = "live"
    /\ valid[Observed]
    /\ lastPins = NoPins
    /\ lastCall.op = "getTokenFlags"
    /\ lastCall.ret
    /\ lastCall.val = <<InitialFlags>>

\* C15: objects is changed only by a thread that holds the mutex (or by the
\* constructor), at most one thread holds it, and getObjects() copies
\* objects only while no thread is inside the locked update of index(): the
\* copy is never a set with the added handles inserted and the removed ones
\* not yet dropped.
C15_NoIntermediateRead ==
    [][/\ \A t \in Threads :
             CopyObjects(t) =>
                /\ \A u \in Threads : pc[u] # "locked"
                /\ lastGet'.result = objects[Observed]
       /\ objects'[Observed] # objects[Observed] =>
             \/ life[Observed] = "none"
             \/ \E t \in Threads : pc[t] = "locked" \/ pc'[t] = "locked"
       /\ \A t, u \in Threads :
             (pc'[t] = "locked" /\ pc'[u] = "locked") => t = u]_vars

\* a thread is inside the locked update, its new handles inserted, while
\* another thread waits to copy objects
C15_Witness ==
    \E t, u \in Threads :
        /\ pc[t] = "locked"
        /\ tAdded[t] # {}
        /\ pc[u] = "copy"

\* C16: once the threads of a process have returned from reconciliations
\* that overlapped (one listed and diffed the directory while another was
\* between its listing and its return), the last listing being of the
\* present directory, objects holds exactly one handle for every object file
\* present and none for any other file.
C16_ConcurrentReconciliation ==
    (/\ life[Observed] = "live"
     /\ valid[Observed]
     /\ overlapped
     /\ synced[Observed]
     /\ \A t \in Threads : pc[t] = "idle") =>
        /\ Names(objects[Observed]) = NewSet(dirFiles)
        /\ \A h1, h2 \in objects[Observed] :
              heap[h1].file = heap[h2].file => h1 = h2

====
